---- MODULE Spec2Model ----
(***************************************************************************)
(* CAIRO agent: the tool-policy gate in front of the agent builder         *)
(* (agent.py) and the recommendation-engine adapters (reccomendation.py:   *)
(* request models, _post, the eight capability functions, their            *)
(* StructuredTools and the module-level deep_agent).                       *)
(*                                                                         *)
(* Strings that the code inspects character by character (tool names, the  *)
(* base URL) are sequences of one-character strings; strings the code      *)
(* passes along untouched (paths, ids, tags, keys) are TLA+ strings.       *)
(* Floats (factor, weights) are modelled by integers.                      *)
(*                                                                         *)
(* The actions are composed into five specifications that share Init and   *)
(* differ in the inputs they draw: SpecGate (import, build_cairo_agent,    *)
(* guard_tools), SpecValidate (every argument dict, through the tool and   *)
(* directly), SpecHttp (every status and body), SpecCfg (changing          *)
(* settings) and SpecConc (overlapping invocations).                       *)
(***************************************************************************)
EXTENDS Integers, Sequences, FiniteSets, TLC

VARIABLES
    imported,     \* the recommendation module has been imported (its module body has run)
    agents,       \* every agent constructed so far, in construction order
    builds,       \* the calls of build_cairo_agent so far and how each ended
    guard_call,   \* the direct call of guard_tools: input, flag, outcome
    settings,     \* config.settings: rec_engine_url, rec_api_key
    calls,        \* the capability invocations so far, in start order
    requests,     \* every HTTP request put on the wire, in send order
    responses     \* what the engine answered to each request

vars == <<imported, agents, builds, guard_call, settings, calls, requests, responses>>

gateVars == <<imported, agents, builds, guard_call>>
callVars == <<settings, calls, requests, responses>>

(***************************************************************************)
(* Bounds of the model.                                                    *)
(***************************************************************************)
MaxLen      == 3   \* longest tool list handed to guard_tools directly
MaxBuilds   == 1   \* calls of build_cairo_agent
MaxCalls    == 2   \* capability invocations in one behaviour, possibly overlapping
MaxSeqCalls == 1   \* capability invocations in one behaviour, one at a time

None == "None"   \* Python's None

(***************************************************************************)
(* The characters of every name that occurs in the model: TLA+ strings     *)
(* are atomic, so str.lower() and `in` work on Chars[name].                *)
(***************************************************************************)
Chars ==
    [
     set_recommendation_weights |->
        <<"s","e","t","_","r","e","c","o","m","m","e","n","d","a","t","i","o","n","_","w","e","i","g","h","t","s">>,
     boost_creator |->
        <<"b","o","o","s","t","_","c","r","e","a","t","o","r">>,
     demote_creator |->
        <<"d","e","m","o","t","e","_","c","r","e","a","t","o","r">>,
     block_tag |->
        <<"b","l","o","c","k","_","t","a","g">>,
     unblock_tag |->
        <<"u","n","b","l","o","c","k","_","t","a","g">>,
     search_content |->
        <<"s","e","a","r","c","h","_","c","o","n","t","e","n","t">>,
     trending_content |->
        <<"t","r","e","n","d","i","n","g","_","c","o","n","t","e","n","t">>,
     personalized_feed |->
        <<"p","e","r","s","o","n","a","l","i","z","e","d","_","f","e","e","d">>,
     like |->
        <<"l","i","k","e">>,
     comment |->
        <<"c","o","m","m","e","n","t">>,
     auto_like |->
        <<"a","u","t","o","_","l","i","k","e">>,
     auto_comment |->
        <<"a","u","t","o","_","c","o","m","m","e","n","t">>,
     like_post |->
        <<"l","i","k","e","_","p","o","s","t">>,
     Auto_Like |->
        <<"A","u","t","o","_","L","i","k","e">>,
     COMMENT_reply |->
        <<"C","O","M","M","E","N","T","_","r","e","p","l","y">>,
     unlikely |->
        <<"u","n","l","i","k","e","l","y">>,
     internet_search |->
        <<"i","n","t","e","r","n","e","t","_","s","e","a","r","c","h">>,
     add_memory |->
        <<"a","d","d","_","m","e","m","o","r","y">>,
     search_memory |->
        <<"s","e","a","r","c","h","_","m","e","m","o","r","y">>,
     get_all_memories |->
        <<"g","e","t","_","a","l","l","_","m","e","m","o","r","i","e","s">>
    ]

(***************************************************************************)
(* str.lower() and the `in` operator on strings.                           *)
(***************************************************************************)
UpperChars == <<"A","B","C","D","E","F","G","H","I","J","K","L","M","N","O","P","Q","R","S","T","U","V","W","X","Y","Z">>
LowerChars == <<"a","b","c","d","e","f","g","h","i","j","k","l","m","n","o","p","q","r","s","t","u","v","w","x","y","z">>

ToLower ==
    [ch \in {UpperChars[i] : i \in 1..Len(UpperChars)} |->
        LowerChars[CHOOSE i \in 1..Len(UpperChars) : UpperChars[i] = ch]]

LowerChar(ch) == IF ch \in DOMAIN ToLower THEN ToLower[ch] ELSE ch

Lower(s) == [i \in 1..Len(s) |-> LowerChar(s[i])]

\* p in s
Contains(s, p) ==
    \E i \in 1..(Len(s) - Len(p) + 1) : SubSeq(s, i, i + Len(p) - 1) = p

(***************************************************************************)
(* policy.guard_tools.  The policy module is imported by agent.py but is   *)
(* not among the sources; it is modelled from the specification, 4.4.      *)
(***************************************************************************)
DisallowedActionSet == {"like", "comment", "auto_like", "auto_comment"}

\* does the name match: case-insensitive substring, for every name at once
NameMatches ==
    [n \in DOMAIN Chars |->
        \E p \in DisallowedActionSet : Contains(Lower(Chars[n]), Lower(Chars[p]))]

NameMatchesCaseSensitive ==
    [n \in DOMAIN Chars |->
        \E p \in DisallowedActionSet : Contains(Chars[n], Chars[p])]

Disallowed(tool) == NameMatches[tool.name]

Allowed(tool) == ~Disallowed(tool)

AllowedCaseSensitive(tool) == ~NameMatchesCaseSensitive[tool.name]

guard_tools_case_sensitive(tools, required) ==
    LET kept == SelectSeq(tools, AllowedCaseSensitive)
    IN  IF required /\ kept = <<>>
        THEN [error |-> "ConfigurationError", tools |-> <<>>]
        ELSE [error |-> "none", tools |-> kept]

\* The filtered list, or ConfigurationError when the caller required at
\* least one tool and none is left.
guard_tools(tools, required) ==
    LET kept == SelectSeq(tools, Allowed)
    IN  IF required /\ kept = <<>>
        THEN [error |-> "ConfigurationError", tools |-> <<>>]
        ELSE [error |-> "none", tools |-> kept]

(***************************************************************************)
(* reccomendation.py: the input schemas.  A schema lists its fields, the   *)
(* defaults of the fields that have one (the others are required) and the  *)
(* ge / le bounds of the Field declarations.                               *)
(***************************************************************************)
NoFields == [f \in {} |-> 0]

SetWeightsInput ==
    [fields |-> {"weights"}, defaults |-> NoFields, ge |-> NoFields, le |-> NoFields]

BoostCreatorInputNoUpper ==
    [fields |-> {"creator_id", "factor"}, defaults |-> NoFields,
     ge |-> [factor |-> 0], le |-> NoFields]

BoostCreatorInput ==
    [fields |-> {"creator_id", "factor"}, defaults |-> NoFields,
     ge |-> [factor |-> 0], le |-> [factor |-> 10]]

DemoteCreatorInput ==
    [fields |-> {"creator_id", "factor"}, defaults |-> NoFields,
     ge |-> [factor |-> 0], le |-> [factor |-> 10]]

BlockTagInput ==
    [fields |-> {"tag"}, defaults |-> NoFields, ge |-> NoFields, le |-> NoFields]

UnblockTagInput ==
    [fields |-> {"tag"}, defaults |-> NoFields, ge |-> NoFields, le |-> NoFields]

SearchContentInput ==
    [fields |-> {"query", "limit"}, defaults |-> [limit |-> 10],
     ge |-> NoFields, le |-> NoFields]

TrendingContentInput ==
    [fields |-> {"category", "limit"}, defaults |-> [category |-> "all", limit |-> 10],
     ge |-> NoFields, le |-> NoFields]

PersonalizedFeedInput ==
    [fields |-> {"user_id", "limit"}, defaults |-> [limit |-> 10],
     ge |-> NoFields, le |-> NoFields]

Schema(name) ==
    CASE name = "SetWeightsInput"       -> SetWeightsInput
      [] name = "BoostCreatorInput"     -> BoostCreatorInput
      [] name = "DemoteCreatorInput"    -> DemoteCreatorInput
      [] name = "BlockTagInput"         -> BlockTagInput
      [] name = "UnblockTagInput"       -> UnblockTagInput
      [] name = "SearchContentInput"    -> SearchContentInput
      [] name = "TrendingContentInput"  -> TrendingContentInput
      [] name = "PersonalizedFeedInput" -> PersonalizedFeedInput

Required(schema) == schema.fields \ DOMAIN schema.defaults

\* pydantic's validation of a dict of arguments against a schema
Valid(schema, args) ==
    /\ Required(schema) \subseteq DOMAIN args
    /\ \A f \in DOMAIN schema.ge \cap DOMAIN args : args[f] >= schema.ge[f]
    /\ \A f \in DOMAIN schema.le \cap DOMAIN args : args[f] <= schema.le[f]

\* the validated arguments: the declared fields, defaults filled in
Validated(schema, args) ==
    [f \in schema.fields |-> IF f \in DOMAIN args THEN args[f] ELSE schema.defaults[f]]

(***************************************************************************)
(* reccomendation.py: the capability functions.  Each takes its keyword    *)
(* arguments kw and yields the (path, payload) it hands to _post.          *)
(***************************************************************************)
Arg(kw, name, default) == IF name \in DOMAIN kw THEN kw[name] ELSE default

set_recommendation_weights(kw) ==
    [path |-> "/api/control/set_weights", payload |-> [weights |-> kw.weights]]

boost_creator(kw) ==
    [path |-> "/api/control/boost_creator",
     payload |-> [creator_id |-> kw.creator_id, factor |-> kw.factor]]

demote_creator_as_boost(kw) ==
    [path |-> "/api/control/boost_creator",
     payload |-> [creator_id |-> kw.creator_id, factor |-> kw.factor]]

demote_creator(kw) ==
    [path |-> "/api/control/demote_creator",
     payload |-> [creator_id |-> kw.creator_id, factor |-> kw.factor]]

block_tag(kw) ==
    [path |-> "/api/control/block_tag", payload |-> [tag |-> kw.tag]]

unblock_tag(kw) ==
    [path |-> "/api/control/unblock_tag", payload |-> [tag |-> kw.tag]]

search_content(kw) ==
    [path |-> "/api/search/content",
     payload |-> [query |-> kw.query, limit |-> Arg(kw, "limit", 10)]]

trending_content(kw) ==
    [path |-> "/api/content/trending",
     payload |-> [category |-> Arg(kw, "category", "all"), limit |-> Arg(kw, "limit", 10)]]

personalized_feed(kw) ==
    [path |-> "/api/content/personalized_feed",
     payload |-> [user_id |-> kw.user_id, limit |-> Arg(kw, "limit", 10)]]

Func(name, kw) ==
    CASE name = "set_recommendation_weights" -> set_recommendation_weights(kw)
      [] name = "boost_creator"     -> boost_creator(kw)
      [] name = "demote_creator"    -> demote_creator(kw)
      [] name = "block_tag"         -> block_tag(kw)
      [] name = "unblock_tag"       -> unblock_tag(kw)
      [] name = "search_content"    -> search_content(kw)
      [] name = "trending_content"  -> trending_content(kw)
      [] name = "personalized_feed" -> personalized_feed(kw)

\* the parameters of each function that have no default
Positional(name) ==
    CASE name = "set_recommendation_weights" -> {"weights"}
      [] name = "boost_creator"     -> {"creator_id", "factor"}
      [] name = "demote_creator"    -> {"creator_id", "factor"}
      [] name = "block_tag"         -> {"tag"}
      [] name = "unblock_tag"       -> {"tag"}
      [] name = "search_content"    -> {"query"}
      [] name = "trending_content"  -> {}
      [] name = "personalized_feed" -> {"user_id"}

(***************************************************************************)
(* reccomendation.py: the StructuredTools and the list given to the        *)
(* module-level deep_agent.                                                *)
(***************************************************************************)
set_weights_tool ==
    [name |-> "set_recommendation_weights", func |-> "set_recommendation_weights",
     args_schema |-> "SetWeightsInput"]
boost_creator_tool ==
    [name |-> "boost_creator", func |-> "boost_creator", args_schema |-> "BoostCreatorInput"]
demote_creator_tool ==
    [name |-> "demote_creator", func |-> "demote_creator", args_schema |-> "DemoteCreatorInput"]
block_tag_tool ==
    [name |-> "block_tag", func |-> "block_tag", args_schema |-> "BlockTagInput"]
unblock_tag_tool ==
    [name |-> "unblock_tag", func |-> "unblock_tag", args_schema |-> "UnblockTagInput"]
search_content_tool ==
    [name |-> "search_content", func |-> "search_content", args_schema |-> "SearchContentInput"]
trending_content_tool ==
    [name |-> "trending_content", func |-> "trending_content",
     args_schema |-> "TrendingContentInput"]
personalized_feed_tool ==
    [name |-> "personalized_feed", func |-> "personalized_feed",
     args_schema |-> "PersonalizedFeedInput"]

\* tools=[...] of the module-level DeepAgent
RecommendationTools ==
    <<set_weights_tool, boost_creator_tool, demote_creator_tool, block_tag_tool,
      unblock_tag_tool, search_content_tool, trending_content_tool, personalized_feed_tool>>

(***************************************************************************)
(* agent.py: build_cairo_agent.  internet_search and the three Mem0 tools  *)
(* come from modules that are not among the sources: their names are an    *)
(* input, ext, of the build.                                               *)
(***************************************************************************)
ExternalTool(name, func) == [name |-> name, func |-> func, args_schema |-> "external"]

CandidateToolsWithoutControls(ext) ==
    <<ExternalTool(ext[1], "internet_search"), ExternalTool(ext[2], "mem_tools.add_tool"),
      ExternalTool(ext[3], "mem_tools.search_tool"), ExternalTool(ext[4], "mem_tools.get_all_tool")>>

\* tools = [...], agent.py lines 45-60
CandidateTools(ext) ==
    <<ExternalTool(ext[1], "internet_search"), ExternalTool(ext[2], "mem_tools.add_tool"),
      ExternalTool(ext[3], "mem_tools.search_tool"), ExternalTool(ext[4], "mem_tools.get_all_tool"),
      set_weights_tool, boost_creator_tool, demote_creator_tool, block_tag_tool,
      unblock_tag_tool, search_content_tool, trending_content_tool, personalized_feed_tool>>

BuildToolsUnguarded(ext, required) == [error |-> "none", tools |-> CandidateTools(ext)]

\* tools = guard_tools(tools), agent.py line 62
BuildTools(ext, required) == guard_tools(CandidateTools(ext), required)

(***************************************************************************)
(* reccomendation.py: _post.  Its reads of settings (lines 57-60) are one   *)
(* step: the settings change between calls, not while a request is built.  *)
(***************************************************************************)
RECURSIVE RStrip(_)
\* str.rstrip("/")
RStrip(s) ==
    IF s # <<>> /\ s[Len(s)] = "/" THEN RStrip(SubSeq(s, 1, Len(s) - 1)) ELSE s

\* the truth value of an Optional[str]
Truthy(v) == v # None /\ v # ""

PostBaseUnstripped(cfg) == cfg.rec_engine_url

\* base = settings.rec_engine_url.rstrip("/")
PostBase(cfg) == RStrip(cfg.rec_engine_url)

PostHeadersAlways(cfg) == {<<"Authorization", <<"Bearer ", cfg.rec_api_key>>>>}

\* headers = {}; if settings.rec_api_key: headers["Authorization"] = f"Bearer {...}"
PostHeaders(cfg) ==
    IF Truthy(cfg.rec_api_key)
    THEN {<<"Authorization", <<"Bearer ", cfg.rec_api_key>>>>}
    ELSE {}

\* client.post(f"{base}{path}", json=payload, headers=headers): what goes on the wire
_post(cfg, path, payload) ==
    [method |-> "POST", url |-> PostBase(cfg) \o <<path>>, json |-> payload,
     headers |-> PostHeaders(cfg)]

\* Response.is_success
IsSuccess(status) == status >= 200 /\ status <= 299

\* the response bodies the engine may send, and what json() makes of them
JsonOk    == "{\"ok\": true}"
JsonItems == "{\"items\": []}"
NotJson   == "<html>"

IsJson(body) == body \in {JsonOk, JsonItems}

ParseJson(body) ==
    CASE body = JsonOk    -> [ok |-> TRUE]
      [] body = JsonItems -> [items |-> <<>>]

PostResultNoRaise(resp) ==
    IF ~IsJson(resp.body)
    THEN [kind |-> "DecodeError"]
    ELSE [kind |-> "ok", value |-> ParseJson(resp.body)]

\* r.raise_for_status(); return r.json()
PostResult(resp) ==
    IF ~IsSuccess(resp.status)
    THEN [kind |-> "HTTPError", status |-> resp.status, body |-> resp.body]
    ELSE IF ~IsJson(resp.body)
         THEN [kind |-> "DecodeError"]
         ELSE [kind |-> "ok", value |-> ParseJson(resp.body)]

NoResponse == [status |-> 0, body |-> ""]
Pending    == [kind |-> "pending"]

Answered == {i \in 1..Len(responses) : responses[i] # NoResponse}

ResponseShared(c) ==
    IF Answered = {} THEN NoResponse
    ELSE responses[CHOOSE i \in Answered : \A j \in Answered : i <= j]

\* r: the response to the request this call's own client sent
ResponseFor(c) == responses[calls[c].req]

(***************************************************************************)
(* Initial state: nothing imported, nothing built, no call made.           *)
(***************************************************************************)
Url_plain   == <<"https://rec.example">>
Url_slash   == <<"https://rec.example", "/">>
Url_slashes == <<"http://alt.example", "/", "v1", "/", "/">>

Init ==
    /\ imported = FALSE
    /\ agents = <<>>
    /\ builds = <<>>
    /\ guard_call = [called |-> FALSE, input |-> <<>>, required |-> FALSE,
                     result |-> [error |-> "none", tools |-> <<>>]]
    /\ settings = [rec_engine_url |-> Url_plain, rec_api_key |-> None]
    /\ calls = <<>>
    /\ requests = <<>>
    /\ responses = <<>>

(***************************************************************************)
(* The policy gate and the agent builder.                                  *)
(***************************************************************************)
\* import of the recommendation module: its body constructs deep_agent
ImportRecommendation ==
    /\ ~imported
    /\ imported' = TRUE
    /\ agents' = Append(agents, [ctor |-> "DeepAgent", name |-> "RecommendationAgent",
                                 tools |-> RecommendationTools, gated |-> FALSE])
    /\ UNCHANGED <<builds, guard_call, callVars>>

\* build_cairo_agent(): ext names the four tools of the missing modules,
\* required is what guard_tools takes the one-argument call to mean
build_cairo_agent(ext, required) ==
    /\ imported
    /\ Len(builds) < MaxBuilds
    /\ LET g == BuildTools(ext, required)
       IN  /\ builds' = Append(builds, [ext |-> ext, required |-> required, error |-> g.error])
           /\ IF g.error # "none"
              THEN agents' = agents
              ELSE agents' = agents \o
                     <<[ctor |-> "create_deep_agent", name |-> None,
                        tools |-> g.tools, gated |-> TRUE],
                       [ctor |-> "DeepAgent", name |-> "CAIRO_DeepAgent",
                        tools |-> g.tools, gated |-> TRUE]>>
    /\ UNCHANGED <<imported, guard_call, callVars>>

\* a call of guard_tools on a list of descriptors; guard_tools is a pure
\* function, so a behaviour records one such call, on any list
GuardCall(tools, required) ==
    /\ ~guard_call.called
    /\ guard_call' = [called |-> TRUE, input |-> tools, required |-> required,
                      result |-> guard_tools(tools, required)]
    /\ UNCHANGED <<imported, agents, builds, callVars>>

(***************************************************************************)
(* Capability invocations.                                                 *)
(***************************************************************************)
\* StructuredTool._parse_input: the validated values of the keys supplied
ParsedInput(schema, args) ==
    [f \in schema.fields \cap DOMAIN args |-> Validated(schema, args)[f]]

\* the function body up to the blocking client.post
StartPost(via, func, args, kw) ==
    LET pp == Func(func, kw)
    IN  /\ requests' = Append(requests,
                         [call |-> Len(calls) + 1] @@ _post(settings, pp.path, pp.payload))
        /\ responses' = Append(responses, NoResponse)
        /\ calls' = Append(calls, [via |-> via, func |-> func, args |-> args,
                                   pc |-> "waiting", req |-> Len(requests) + 1,
                                   cfg |-> settings, outcome |-> Pending])

\* tool.invoke(args): validate against args_schema, then call func
ToolInvoke(tool, args) ==
    /\ imported
    /\ Len(calls) < MaxCalls
    /\ IF Valid(Schema(tool.args_schema), args)
       THEN StartPost("tool", tool.func, args, ParsedInput(Schema(tool.args_schema), args))
       ELSE /\ calls' = Append(calls, [via |-> "tool", func |-> tool.func, args |-> args,
                                       pc |-> "done", req |-> 0, cfg |-> settings,
                                       outcome |-> [kind |-> "ValidationError"]])
            /\ UNCHANGED <<requests, responses>>
    /\ UNCHANGED <<settings, gateVars>>

\* func(**args): a plain Python call of the capability function
DirectCall(func, args) ==
    /\ imported
    /\ Len(calls) < MaxCalls
    /\ Positional(func) \subseteq DOMAIN args
    /\ StartPost("direct", func, args, args)
    /\ UNCHANGED <<settings, gateVars>>

\* the engine answers request i
Respond(i, status, body) ==
    /\ i \in 1..Len(requests)
    /\ responses[i] = NoResponse
    /\ calls[requests[i].call].pc = "waiting"
    /\ responses' = [responses EXCEPT ![i] = [status |-> status, body |-> body]]
    /\ UNCHANGED <<settings, calls, requests, gateVars>>

\* client.post returns; raise_for_status, json, return
Return(c) ==
    /\ c \in 1..Len(calls)
    /\ calls[c].pc = "waiting"
    /\ ResponseFor(c) # NoResponse
    /\ calls' = [calls EXCEPT ![c].pc = "done", ![c].outcome = PostResult(ResponseFor(c))]
    /\ UNCHANGED <<settings, requests, responses, gateVars>>

\* client.post times out (timeout=30)
Timeout(c) ==
    /\ c \in 1..Len(calls)
    /\ calls[c].pc = "waiting"
    /\ responses[calls[c].req] = NoResponse
    /\ calls' = [calls EXCEPT ![c].pc = "done", ![c].outcome = [kind |-> "TransportError"]]
    /\ UNCHANGED <<settings, requests, responses, gateVars>>

\* the configuration collaborator changes the settings
SetConfig(url, key) ==
    /\ settings' = [rec_engine_url |-> url, rec_api_key |-> key]
    /\ settings' # settings
    /\ UNCHANGED <<calls, requests, responses, gateVars>>

(***************************************************************************)
(* SpecGate: import, build_cairo_agent and guard_tools on bounded inputs.  *)
(***************************************************************************)
tool(name) == ExternalTool(name, "test")

ToolPool ==
    {tool("like_post"), boost_creator_tool, tool("auto_comment"), tool("Auto_Like"),
     tool("unlikely")}

ToolLists == UNION {[1..k -> ToolPool] : k \in 0..MaxLen}

ExtNames ==
    { <<"internet_search", "add_memory", "search_memory", "get_all_memories">>,
      <<"internet_search", "like_post", "search_memory", "COMMENT_reply">>,
      <<"like_post", "Auto_Like", "COMMENT_reply", "auto_comment">> }

NextGate ==
    \/ ImportRecommendation
    \/ \E ext \in ExtNames, required \in BOOLEAN : build_cairo_agent(ext, required)
    \/ \E tools \in ToolLists, required \in BOOLEAN : GuardCall(tools, required)

SpecGate == Init /\ [][NextGate]_vars

AgentIndices == 1..Len(agents)

\* the agent returned by build_cairo_agent or the DeepAgent built inside it
BuiltByBuilder(a) == a.ctor = "create_deep_agent" \/ a.name = "CAIRO_DeepAgent"

NoDisallowedTool(a) == \A i \in 1..Len(a.tools) : ~Disallowed(a.tools[i])

KeptIndices(tools) == {i \in 1..Len(tools) : ~Disallowed(tools[i])}

\* the k-th smallest element of a set of indices
Nth(S, k) == CHOOSE i \in S : Cardinality({j \in S : j <= i}) = k

C8_EmptyMandatoryListRaises ==
    /\ (guard_call.called /\ guard_call.required /\ KeptIndices(guard_call.input) = {})
          => guard_call.result.error = "ConfigurationError"
    /\ (guard_call.called /\ guard_call.required /\ guard_call.result.error = "none")
          => guard_call.result.tools # <<>>
    /\ \A k \in AgentIndices :
          BuiltByBuilder(agents[k]) => agents[k].tools # <<>>
    /\ \A b \in 1..Len(builds) :
          builds[b].error = "none" =>
             \E k \in AgentIndices :
                 agents[k].ctor = "create_deep_agent" /\ agents[k].tools # <<>>

C8_Witness ==
    /\ guard_call.called
    /\ guard_call.required
    /\ guard_call.input = <<tool("like_post")>>
    /\ guard_call.result.error = "ConfigurationError"
    /\ \E b \in 1..Len(builds) :
          /\ builds[b].required
          /\ builds[b].error = "none"
          /\ \A j \in 1..4 : Disallowed(tool(builds[b].ext[j]))

(***************************************************************************)
(* Inputs of the capability invocations.  An argument dict may lack keys.  *)
(***************************************************************************)
FactorVals == {-1, 0, 1, 10, 11}

Weights == [freshness |-> 4, similarity |-> 6]

ArgsOf(func) ==
    CASE func = "set_recommendation_weights" -> {[weights |-> Weights], NoFields}
      [] func \in {"boost_creator", "demote_creator"} ->
            {[creator_id |-> "c1", factor |-> f] : f \in FactorVals}
               \cup {[creator_id |-> "", factor |-> 1], [creator_id |-> "c1"], [factor |-> 1]}
      [] func \in {"block_tag", "unblock_tag"} -> {[tag |-> "sports"], [tag |-> ""], NoFields}
      [] func = "search_content" ->
            {[query |-> "q", limit |-> 5], [query |-> "q", limit |-> 0], [query |-> "q"],
             [query |-> "", limit |-> 5], [limit |-> 5]}
      [] func = "trending_content" ->
            {NoFields, [category |-> "news"], [category |-> "news", limit |-> -1],
             [limit |-> 5]}
      [] func = "personalized_feed" ->
            {[user_id |-> "u1", limit |-> 5], [user_id |-> "u1"],
             [user_id |-> "", limit |-> 0], [limit |-> 5]}

Tools == {RecommendationTools[i] : i \in 1..Len(RecommendationTools)}
Funcs == {t.func : t \in Tools}

\* one well-formed argument dict per function
GoodArgs(func) ==
    CASE func = "set_recommendation_weights" -> [weights |-> Weights]
      [] func \in {"boost_creator", "demote_creator"} -> [creator_id |-> "c1", factor |-> 1]
      [] func \in {"block_tag", "unblock_tag"} -> [tag |-> "sports"]
      [] func = "search_content" -> [query |-> "q", limit |-> 5]
      [] func = "trending_content" -> [category |-> "news"]
      [] func = "personalized_feed" -> [user_id |-> "u1", limit |-> 5]

\* no invocation is in progress
Idle == \A c \in 1..Len(calls) : calls[c].pc = "done"

SeqToolInvoke(t, args) == Idle /\ Len(calls) < MaxSeqCalls /\ ToolInvoke(t, args)
SeqDirectCall(func, args) == Idle /\ Len(calls) < MaxSeqCalls /\ DirectCall(func, args)

(***************************************************************************)
(* SpecValidate: one invocation at a time, through the tool or directly,   *)
(* over every argument dict of ArgsOf; the engine answers 200.             *)
(***************************************************************************)
NextValidate ==
    \/ ImportRecommendation
    \/ \E t \in Tools : \E args \in ArgsOf(t.func) : SeqToolInvoke(t, args)
    \/ \E func \in Funcs : \E args \in ArgsOf(func) : SeqDirectCall(func, args)
    \/ \E i \in 1..Len(requests) : Respond(i, 200, JsonOk)
    \/ \E c \in 1..Len(calls) : Return(c)

SpecValidate == Init /\ [][NextValidate]_vars

(***************************************************************************)
(* SpecHttp: one invocation at a time of each tool on well-formed          *)
(* arguments; the engine answers with any status and body, or not at all.  *)
(***************************************************************************)
Statuses == {200, 204, 301, 404, 500}
Bodies   == {JsonOk, JsonItems, NotJson}

NextHttp ==
    \/ ImportRecommendation
    \/ \E t \in Tools : SeqToolInvoke(t, GoodArgs(t.func))
    \/ \E i \in 1..Len(requests), status \in Statuses, body \in Bodies : Respond(i, status, body)
    \/ \E c \in 1..Len(calls) : Return(c)
    \/ \E c \in 1..Len(calls) : Timeout(c)

SpecHttp == Init /\ [][NextHttp]_vars

(***************************************************************************)
(* SpecCfg: invocations while the configuration changes.                   *)
(***************************************************************************)
Configs ==
    { <<Url_plain, None>>, <<Url_plain, "k1">>, <<Url_slash, "">>, <<Url_slash, "k1">>,
      <<Url_slashes, "k2">> }

NextCfg ==
    \/ ImportRecommendation
    \/ \E cfg \in Configs : SetConfig(cfg[1], cfg[2])
    \/ Idle /\ ToolInvoke(block_tag_tool, [tag |-> "sports"])
    \/ \E i \in 1..Len(requests), status \in {200, 500} : Respond(i, status, JsonOk)
    \/ \E c \in 1..Len(calls) : Return(c)

SpecCfg == Init /\ [][NextCfg]_vars

(***************************************************************************)
(* SpecConc: overlapping invocations.                                      *)
(***************************************************************************)
NextConc ==
    \/ ImportRecommendation
    \/ DirectCall("boost_creator", [creator_id |-> "c1", factor |-> 1])
    \/ ToolInvoke(block_tag_tool, [tag |-> "sports"])
    \/ \E i \in 1..Len(requests), status \in {200, 500}, body \in {JsonOk, JsonItems} :
          Respond(i, status, body)
    \/ \E c \in 1..Len(calls) : Return(c)
    \/ \E c \in 1..Len(calls) : Timeout(c)

SpecConc == Init /\ [][NextConc]_vars

(***************************************************************************)
(* Properties of the capability invocations.                               *)
(***************************************************************************)
CallIndices == 1..Len(calls)

\* the requests on the wire that call c sent
RequestsOf(c) == {i \in 1..Len(requests) : requests[i].call = c}

Rejected(c) ==
    /\ calls[c].outcome.kind = "ValidationError"
    /\ calls[c].req = 0
    /\ RequestsOf(c) = {}

FactorOutOfRange(c) ==
    /\ calls[c].func \in {"boost_creator", "demote_creator"}
    /\ "factor" \in DOMAIN calls[c].args
    /\ (calls[c].args.factor < 0 \/ calls[c].args.factor > 10)

ViolatesStatedConstraint(c) ==
    LET a == calls[c].args
    IN  \/ \E f \in {"creator_id", "tag", "query", "user_id"} : f \in DOMAIN a /\ a[f] = ""
        \/ /\ calls[c].func \in {"search_content", "trending_content", "personalized_feed"}
           /\ "limit" \in DOMAIN a
           /\ a.limit < 1

\* C7: an input with an empty creator_id, tag, query or user_id, or with a
\* limit < 1, is rejected with ValidationError and no HTTP request is
\* issued for it.
C7_InvalidInputNeverPosts ==
    \A c \in CallIndices : ViolatesStatedConstraint(c) => Rejected(c)

ExpectedPath(func) ==
    CASE func = "set_recommendation_weights" -> "/api/control/set_weights"
      [] func = "boost_creator"     -> "/api/control/boost_creator"
      [] func = "demote_creator"    -> "/api/control/demote_creator"
      [] func = "block_tag"         -> "/api/control/block_tag"
      [] func = "unblock_tag"       -> "/api/control/unblock_tag"
      [] func = "search_content"    -> "/api/search/content"
      [] func = "trending_content"  -> "/api/content/trending"
      [] func = "personalized_feed" -> "/api/content/personalized_feed"

ExpectedKeys(func) ==
    CASE func = "set_recommendation_weights" -> {"weights"}
      [] func \in {"boost_creator", "demote_creator"} -> {"creator_id", "factor"}
      [] func \in {"block_tag", "unblock_tag"} -> {"tag"}
      [] func = "search_content"    -> {"query", "limit"}
      [] func = "trending_content"  -> {"category", "limit"}
      [] func = "personalized_feed" -> {"user_id", "limit"}

\* the value a payload key must carry: the argument supplied, or the
\* declared default of an omitted limit or category
ExpectedValue(a, k) ==
    IF k \in DOMAIN a THEN a[k] ELSE IF k = "limit" THEN 10 ELSE "all"

OwnRequest(c) ==
    LET r == requests[calls[c].req]
    IN  /\ RequestsOf(c) = {calls[c].req}
        /\ r.method = "POST"
        /\ r.url[Len(r.url)] = ExpectedPath(calls[c].func)
        /\ DOMAIN r.json = ExpectedKeys(calls[c].func)
        /\ \A k \in DOMAIN r.json : r.json[k] = ExpectedValue(calls[c].args, k)

\* C5: every invocation that is not rejected sends exactly one POST, to the
\* fixed path of its capability, with a payload whose key set is the
\* declared one and whose values are the arguments supplied.
C5_PathAndPayload ==
    \A c \in CallIndices : ~Rejected(c) => OwnRequest(c)

C5_Witness ==
    \E c \in CallIndices :
        /\ calls[c].func = "demote_creator"
        /\ calls[c].pc = "done"
        /\ calls[c].outcome.kind = "ok"
        /\ requests[calls[c].req].url = <<"https://rec.example", "/api/control/demote_creator">>
        /\ requests[calls[c].req].json = [creator_id |-> "c1", factor |-> 10]

\* C4: when the engine answers an invocation with a non-success status, the
\* invocation fails with an HTTPError that carries that status, returns no
\* result, and has sent exactly one request.
C4_HttpErrorNoRetry ==
    \A c \in CallIndices :
        (calls[c].pc = "done" /\ calls[c].req # 0
           /\ responses[calls[c].req] # NoResponse
           /\ ~(responses[calls[c].req].status \in 200..299)) =>
            /\ calls[c].outcome.kind = "HTTPError"
            /\ calls[c].outcome.status = responses[calls[c].req].status
            /\ "value" \notin DOMAIN calls[c].outcome
            /\ Cardinality(RequestsOf(c)) = 1

C4_Witness ==
    \E c \in CallIndices :
        /\ calls[c].func = "personalized_feed"
        /\ calls[c].pc = "done"
        /\ responses[calls[c].req].status = 500
        /\ calls[c].outcome.kind = "HTTPError"
        /\ calls[c].outcome.status = 500
        /\ Cardinality(RequestsOf(c)) = 1

\* the keys that count as a configured API key (None and "" are none)
ConfiguredKeys == {"k1", "k2"}

AuthorizationOf(r) == {h \in r.headers : h[1] = "Authorization"}

\* C6: a request carries Authorization: Bearer <api_key> exactly when an
\* API key is configured at the time of the call, and then with that key;
\* otherwise it carries no Authorization header.
C6_BearerIffKeyConfigured ==
    \A i \in 1..Len(requests) :
        LET key == calls[requests[i].call].cfg.rec_api_key
        IN  IF key \in ConfiguredKeys
            THEN AuthorizationOf(requests[i]) = {<<"Authorization", <<"Bearer ", key>>>>}
            ELSE AuthorizationOf(requests[i]) = {}

C6_Witness ==
    \E i, j \in 1..Len(requests) :
        /\ calls[requests[i].call].cfg.rec_api_key = "k1"
        /\ requests[i].headers = {<<"Authorization", <<"Bearer ", "k1">>>>}
        /\ calls[requests[j].call].cfg.rec_api_key = ""
        /\ requests[j].headers = {}

\* b is url with its trailing slashes removed
IsStripped(b, url) ==
    /\ Len(b) <= Len(url)
    /\ b = SubSeq(url, 1, Len(b))
    /\ \A k \in (Len(b) + 1)..Len(url) : url[k] = "/"
    /\ b # <<>> => b[Len(b)] # "/"

\* a request sent in this step is built from the settings as they are now
NewRequestUsesCurrentSettings ==
    Len(requests') > Len(requests) =>
        LET r == requests'[Len(requests')]
        IN  /\ IsStripped(SubSeq(r.url, 1, Len(r.url) - 1), settings.rec_engine_url)
            /\ r.url[Len(r.url)] = "/api/control/block_tag"
            /\ settings.rec_api_key \in ConfiguredKeys =>
                  r.headers = {<<"Authorization", <<"Bearer ", settings.rec_api_key>>>>}
            /\ settings.rec_api_key \notin ConfiguredKeys => r.headers = {}

\* C10: a step of a capability call, successful or failed, leaves
\* rec_engine_url and rec_api_key unchanged, and a request is built from
\* the base URL (trailing slash stripped) and the key that the settings
\* hold when the call is made, whatever earlier calls used.
C10_ConfigReadAtCallTimeNeverWritten ==
    [][ /\ <<calls, requests, responses>>' # <<calls, requests, responses>>
            => settings' = settings
        /\ NewRequestUsesCurrentSettings ]_vars

C10_Witness ==
    /\ Len(requests) = 2
    /\ calls[1].pc = "done"
    /\ calls[1].outcome.kind = "HTTPError"
    /\ calls[1].cfg = [rec_engine_url |-> Url_plain, rec_api_key |-> None]
    /\ requests[1].url = <<"https://rec.example", "/api/control/block_tag">>
    /\ requests[1].headers = {}
    /\ calls[2].cfg = [rec_engine_url |-> Url_slashes, rec_api_key |-> "k2"]
    /\ requests[2].url = <<"http://alt.example", "/", "v1", "/api/control/block_tag">>
    /\ requests[2].headers = {<<"Authorization", <<"Bearer ", "k2">>>>}
    /\ settings = calls[2].cfg

\* the outcome of a finished call is what _post makes of the response to
\* the call's own request
OwnOutcome(c) ==
    LET resp == responses[calls[c].req]
        out  == calls[c].outcome
    IN  /\ out.kind = "TransportError" <=> resp = NoResponse
        /\ out.kind = "HTTPError" <=> (resp # NoResponse /\ ~(resp.status \in 200..299))
        /\ out.kind = "HTTPError" => out.status = resp.status /\ out.body = resp.body
        /\ out.kind = "ok" <=> (resp # NoResponse /\ resp.status \in 200..299)
        /\ out.kind = "ok" =>
              out.value = (IF resp.body = JsonOk THEN [ok |-> TRUE] ELSE [items |-> <<>>])

\* C9: however the invocations interleave, each sends exactly one request
\* with its own path and payload, there are as many requests as
\* invocations (none coalesced), and the outcome of each finished
\* invocation is the response to its own request.
C9_IndependentInvocations ==
    /\ Len(requests) = Len(calls)
    /\ \A c \in CallIndices :
          /\ calls[c].req \in 1..Len(requests)
          /\ requests[calls[c].req].call = c
          /\ OwnRequest(c)
          /\ calls[c].pc = "done" => OwnOutcome(c)

C9_Witness ==
    /\ Len(calls) = 2
    /\ calls[1].func = "boost_creator" /\ calls[2].func = "boost_creator"
    /\ calls[1].args = calls[2].args
    /\ requests[1].json = requests[2].json /\ requests[1].url = requests[2].url
    /\ calls[1].pc = "waiting" /\ responses[1] = NoResponse
    /\ calls[2].pc = "done"
    /\ calls[2].outcome = [kind |-> "ok", value |-> [ok |-> TRUE]]

====
